---- MODULE Spec2Model ----
(***************************************************************************)
(* Model of accounts/models.py: the UserManager factory (create_user,      *)
(* create_superuser), the User model's permission accessors, and the       *)
(* storage table behind User with its two unique columns.                  *)
(*                                                                         *)
(* Strings are sequences of one-character strings, so that the email       *)
(* normalisation and the password encoding are computed, not assumed.      *)
(* Python's None is the one-token sequence None.  The four timestamp       *)
(* columns are not modelled: no operation of the module reads them.        *)
(***************************************************************************)
EXTENDS Integers, Sequences, FiniteSets, TLC

\* ------------------------------------------------------------------ bounds
\* The number of salts the hasher draws from.
NumSalts == 1

\* ------------------------------------------------------------------ values
None == <<"None">>

RESTAURANT == 1
CUSTOMER == 2

Emails == { None, <<>>, <<"a", "@", "X">>, <<"b", "@", "x">> }

Usernames == { None, <<>>, <<"u">>, <<"v">> }

FirstNames == { <<"J">> }

LastNames == { <<"D">> }

Passwords == { None, <<"p">> }

\* Plaintexts tried against a stored password.
Guesses == { None, <<>>, <<"p">>, <<"q">> }

SaltChars == << "s", "t", "u" >>

Salts == { << SaltChars[i] >> : i \in 1..NumSalts }

Perms == { <<"a">>, <<"b">>, <<"c">> }

Objs == { None, <<"x">> }

AppLabels == { <<"a">>, <<"b">> }

\* Python truthiness of a str-or-None argument: `not x`.
Falsy(x) == x = None \/ x = <<>>

\* ------------------------------------------------- BaseUserManager helpers
Chars == << " ", "@", "$", "!", "a", "b", "c", "p", "q", "s", "t", "u", "v",
            "w", "x", "A", "B", "C", "X", "J", "D" >>

Code(c) == CHOOSE i \in 1..Len(Chars) : Chars[i] = c

Lower(c) ==
  CASE c = "A" -> "a"
    [] c = "B" -> "b"
    [] c = "C" -> "c"
    [] c = "X" -> "x"
    [] c = "J" -> "j"
    [] c = "D" -> "d"
    [] OTHER -> c

\* Index of the last occurrence of c in s, 0 when there is none.
LastIndexOf(s, c) ==
  LET hits == { i \in 1..Len(s) : s[i] = c }
  IN IF hits = {} THEN 0 ELSE CHOOSE i \in hits : \A j \in hits : j <= i

\* str.strip(): drop leading and trailing blanks.
Strip(s) ==
  LET keep == { i \in 1..Len(s) : s[i] # " " }
  IN IF keep = {} THEN <<>>
     ELSE LET lo == CHOOSE i \in keep : \A j \in keep : i <= j
              hi == CHOOSE i \in keep : \A j \in keep : j <= i
          IN SubSeq(s, lo, hi)

\* BaseUserManager.normalize_email: `email or ""`, then the part after the
\* last "@" of the stripped address is lowercased; an address without "@" is
\* returned as it came.
normalize_email(email) ==
  LET e == IF Falsy(email) THEN <<>> ELSE email
      t == Strip(e)
      at == LastIndexOf(t, "@")
  IN IF at = 0 THEN e
     ELSE SubSeq(t, 1, at) \o [i \in 1..(Len(t) - at) |-> Lower(t[at + i])]

\* ------------------------------------------------------- password hashing
HexDigits == << "0", "1", "2", "3", "4", "5", "6", "7",
                "8", "9", "a", "b", "c", "d", "e", "f" >>

Hex4(n) ==
  << HexDigits[((n \div 4096) % 16) + 1], HexDigits[((n \div 256) % 16) + 1],
     HexDigits[((n \div 16) % 16) + 1], HexDigits[(n % 16) + 1] >>

RECURSIVE Mix(_, _)
Mix(s, h) ==
  IF s = <<>> THEN h
  ELSE Mix(Tail(s), (h * 31 + Code(Head(s))) % 65536)

\* The salted one-way digest of the hasher, as a keyed fold of the salt and
\* the password.
Digest(password, salt) == Hex4(Mix(password, Mix(salt, 7)))

\* make_password: None gives an unusable value ("!" and a random suffix),
\* anything else, the empty string included, is encoded
\* algorithm$salt$digest.
make_password(password, salt) ==
  IF password = None THEN <<"!">> \o salt
  ELSE <<"pbkdf2_sha256", "$">> \o salt \o <<"$">> \o Digest(password, salt)

is_password_usable(encoded) == Len(encoded) = 0 \/ encoded[1] # "!"

\* check_password: never true of None or of an unusable or unparsable
\* value; otherwise the plaintext is re-encoded under the stored salt and
\* compared with the stored value.
check_password(password, encoded) ==
  IF password = None \/ ~is_password_usable(encoded) THEN FALSE
  ELSE IF Len(encoded) < 4 \/ encoded[1] # "pbkdf2_sha256" \/ encoded[2] # "$"
       THEN FALSE
  ELSE LET last == LastIndexOf(encoded, "$")
       IN last > 2
          /\ make_password(password, SubSeq(encoded, 3, last - 1)) = encoded

\* ------------------------------------------------------------- User model
Model_Active(email, username, first_name, last_name) ==
  [ pk |-> 0, email |-> email, username |-> username,
    first_name |-> first_name, last_name |-> last_name,
    phone_number |-> <<>>, role |-> 0, password |-> <<>>,
    is_admin |-> FALSE, is_staff |-> FALSE, is_active |-> TRUE,
    is_Superadmin |-> FALSE, extra |-> {} ]

\* self.model(email=..., username=..., first_name=..., last_name=...): an
\* unsaved instance, every other column at its declared default.  `extra`
\* holds the names of instance attributes that are not columns.
Model(email, username, first_name, last_name) ==
  [ pk |-> 0,
    email |-> email,
    username |-> username,
    first_name |-> first_name,
    last_name |-> last_name,
    phone_number |-> <<>>,
    role |-> 0,            \* NULL: neither RESTAURANT nor CUSTOMER
    password |-> <<>>,
    is_admin |-> FALSE,
    is_staff |-> FALSE,
    is_active |-> FALSE,
    is_Superadmin |-> FALSE,
    extra |-> {} ]

NoUser == Model(<<>>, <<>>, <<>>, <<>>)

\* The columns of the table: what save() writes of an instance.
Row(obj) == [ obj EXCEPT !.extra = {} ]

\* The key and the four status columns of a row.
Flags(row) ==
  [ pk |-> row.pk, is_admin |-> row.is_admin, is_staff |-> row.is_staff,
    is_active |-> row.is_active, is_Superadmin |-> row.is_Superadmin ]

set_password_Plain(user, password, salt) ==
  [ user EXCEPT !.password = password ]

\* AbstractBaseUser.set_password
set_password(user, password, salt) ==
  [ user EXCEPT !.password = make_password(password, salt) ]

UniqueViolation_EmailOnly(rows, obj) ==
  \E i \in 1..Len(rows) : rows[i].pk # obj.pk /\ rows[i].email = obj.email

\* unique=True on username and on email: another row holds the value.
UniqueViolation(rows, obj) ==
  \E i \in 1..Len(rows) :
    /\ rows[i].pk # obj.pk
    /\ \/ rows[i].email = obj.email
       \/ rows[i].username = obj.username

\* Model.save(using=self._db), committed at once: an UPDATE of the row with
\* the instance's primary key, or an INSERT under a fresh key when there is
\* no such row; IntegrityError, and nothing written, on a unique violation.
save(rows, obj) ==
  IF UniqueViolation(rows, obj)
  THEN [ outcome |-> "IntegrityError", rows |-> rows, obj |-> obj ]
  ELSE IF obj.pk \in 1..Len(rows)
       THEN [ outcome |-> "ok",
              rows |-> [ rows EXCEPT ![obj.pk] = Row(obj) ],
              obj |-> obj ]
       ELSE LET o == [ obj EXCEPT !.pk = Len(rows) + 1 ]
            IN [ outcome |-> "ok", rows |-> Append(rows, Row(o)), obj |-> o ]

has_perm_Staff(user, perm, obj) == user.is_staff

has_perm(user, perm, obj) == user.is_admin

has_module_perms_Admin(user, app_label) == user.is_admin

has_module_perms(user, app_label) == TRUE

\* ------------------------------------------------------------ UserManager
MissingEmail_NoneOnly(email) == email = None

\* `if not email`
MissingEmail(email) == Falsy(email)

MissingUsername_NoneOnly(username) == username = None

\* `if not username`
MissingUsername(username) == Falsy(username)

EmailError == "ValueError: User must have an email address"

UsernameError == "ValueError: User must have an username"

IntegrityError == "IntegrityError"

Errors == { EmailError, UsernameError, IntegrityError }

\* What create_user makes of the result s of its save(): the instance is
\* returned after one committed write, or the storage error propagates.
Saved(rows, s) ==
  IF s.outcome = "ok"
  THEN [ outcome |-> "ok", user |-> s.obj, rows |-> s.rows, writes |-> 1 ]
  ELSE [ outcome |-> s.outcome, user |-> NoUser, rows |-> rows, writes |-> 0 ]

\* UserManager.create_user over the table `rows`; `salt` is the hasher's
\* random choice.  The result is the outcome, the returned instance, the
\* table afterwards and the number of committed writes.
create_user(rows, first_name, last_name, username, email, password, salt) ==
  IF MissingEmail(email)
  THEN [ outcome |-> EmailError, user |-> NoUser, rows |-> rows, writes |-> 0 ]
  ELSE IF MissingUsername(username)
  THEN [ outcome |-> UsernameError, user |-> NoUser, rows |-> rows, writes |-> 0 ]
  ELSE Saved(rows,
             save(rows,
                  set_password(
                    Model(normalize_email(email), username, first_name, last_name),
                    password, salt)))

\* The privileges set before the one write.
superuser_create_Atomic(rows, first_name, last_name, username, email, password, salt) ==
  IF MissingEmail(normalize_email(email))
  THEN [ outcome |-> EmailError, user |-> NoUser, rows |-> rows, writes |-> 0 ]
  ELSE IF MissingUsername(username)
  THEN [ outcome |-> UsernameError, user |-> NoUser, rows |-> rows, writes |-> 0 ]
  ELSE Saved(rows,
             save(rows,
                  [ set_password(
                      Model(normalize_email(email), username, first_name,
                            last_name),
                      password, salt)
                    EXCEPT !.is_admin = TRUE, !.is_active = TRUE,
                           !.is_staff = TRUE ]))

\* The account that already holds the email is fetched instead of created.
superuser_create_Upsert(rows, first_name, last_name, username, email, password, salt) ==
  LET held == { i \in 1..Len(rows) : rows[i].email = normalize_email(email) }
  IN IF held # {}
     THEN [ outcome |-> "ok", user |-> rows[CHOOSE i \in held : TRUE],
            rows |-> rows, writes |-> 0 ]
     ELSE create_user(rows, first_name, last_name, username,
                      normalize_email(email), password, salt)

\* create_superuser, first half: the delegated create_user call.
superuser_create(rows, first_name, last_name, username, email, password, salt) ==
  create_user(rows, first_name, last_name, username, normalize_email(email),
              password, salt)

\* create_superuser, the four assignments: is_superadmin is not a column of
\* User (the column is is_Superadmin), so it lands among the instance's own
\* attributes.
promote(user) ==
  [ user EXCEPT !.is_admin = TRUE,
                !.is_active = TRUE,
                !.is_staff = TRUE,
                !.extra = @ \cup {"is_superadmin"} ]

\* ------------------------------------------------------------------ state
VARIABLES
  db,      \* the User table: the sequence of committed rows, by primary key
  pc,      \* "idle", or "promote": inside create_superuser, between its writes
  user,    \* the instance held by the manager call (the last one returned)
  ret,     \* the last manager call: arguments, the table it found, its end
  seen,    \* what a concurrent reader last read: a row's key and flags
  answer   \* the last permission query on `user` and its result

vars == << db, pc, user, ret, seen, answer >>

NoCall ==
  [ op |-> "none", username |-> None, email |-> None, password |-> None,
    before |-> <<>>, outcome |-> "none", writes |-> 0 ]

NoAnswer == [ op |-> "none", arg |-> None, obj |-> None, value |-> FALSE ]

Init ==
  /\ db = <<>>
  /\ pc = "idle"
  /\ user = NoUser
  /\ ret = NoCall
  /\ seen = Flags(NoUser)
  /\ answer = NoAnswer

CreateUser ==
  /\ pc = "idle"
  /\ \E first_name \in FirstNames, last_name \in LastNames,
        username \in Usernames, email \in Emails,
        password \in Passwords, salt \in Salts :
       \E r \in { create_user(db, first_name, last_name, username, email,
                              password, salt) } :
          /\ db' = r.rows
          /\ user' = r.user
          /\ ret' = [ op |-> "create_user", username |-> username,
                      email |-> email, password |-> password, before |-> db,
                      outcome |-> r.outcome, writes |-> r.writes ]
  /\ UNCHANGED << pc, seen, answer >>

\* create_superuser up to the return of its create_user call.
CreateSuperuserBegin ==
  /\ pc = "idle"
  /\ \E first_name \in FirstNames, last_name \in LastNames,
        username \in Usernames, email \in Emails,
        password \in Passwords, salt \in Salts :
       \E r \in { superuser_create(db, first_name, last_name, username, email,
                                   password, salt) } :
          /\ db' = r.rows
          /\ user' = r.user
          /\ pc' = IF r.outcome = "ok" THEN "promote" ELSE "idle"
          /\ ret' = [ op |-> "create_superuser", username |-> username,
                      email |-> email, password |-> password, before |-> db,
                      outcome |-> IF r.outcome = "ok" THEN "pending"
                                  ELSE r.outcome,
                      writes |-> r.writes ]
  /\ UNCHANGED << seen, answer >>

\* create_superuser from the four assignments to its return.
CreateSuperuserFinish ==
  /\ pc = "promote"
  /\ \E s \in { save(db, promote(user)) } :
        /\ db' = s.rows
        /\ user' = s.obj
        /\ ret' = [ ret EXCEPT !.outcome = s.outcome,
                               !.writes = IF s.outcome = "ok" THEN @ + 1 ELSE @ ]
  /\ pc' = "idle"
  /\ UNCHANGED << seen, answer >>

\* The process dies between the two writes of create_superuser.
Crash ==
  /\ pc = "promote"
  /\ pc' = "idle"
  /\ user' = NoUser
  /\ ret' = [ ret EXCEPT !.outcome = "crashed" ]
  /\ UNCHANGED << db, seen, answer >>

\* Another connection reads the status columns of a committed row.
Read ==
  /\ \E i \in 1..Len(db) : seen' = Flags(db[i])
  /\ UNCHANGED << db, pc, user, ret, answer >>

Next ==
  \/ CreateUser
  \/ CreateSuperuserBegin
  \/ CreateSuperuserFinish
  \/ Crash
  \/ Read

Spec == Init /\ [][Next]_vars

\* ------------------------------------------------- permission accessors
\* Any instance of User: the four status columns hold any booleans.
Instances ==
  { [ Model(<<"a", "@", "x">>, <<"u">>, <<"J">>, <<"D">>) EXCEPT
        !.pk = 1, !.is_admin = f[1], !.is_staff = f[2], !.is_active = f[3],
        !.is_Superadmin = f[4] ] : f \in [1..4 -> BOOLEAN] }

PermInit ==
  /\ user \in Instances
  /\ db = << Row(user) >>
  /\ pc = "idle"
  /\ ret = NoCall
  /\ seen = Flags(NoUser)
  /\ answer = NoAnswer

HasPerm ==
  /\ \E perm \in Perms, obj \in Objs :
       answer' = [ op |-> "has_perm", arg |-> perm, obj |-> obj,
                   value |-> has_perm(user, perm, obj) ]
  /\ UNCHANGED << db, pc, user, ret, seen >>

HasModulePerms ==
  /\ \E app_label \in AppLabels :
       answer' = [ op |-> "has_module_perms", arg |-> app_label, obj |-> None,
                   value |-> has_module_perms(user, app_label) ]
  /\ UNCHANGED << db, pc, user, ret, seen >>

PermNext ==
  \/ HasPerm
  \/ HasModulePerms

PermSpec == PermInit /\ [][PermNext]_vars

\* ----------------------------------------------------------------- claims
Creates == { "create_user", "create_superuser" }

\* The committed row of the instance the last call holds.
Stored == db[user.pk]

IsStored == user.pk \in 1..Len(db)

Unprivileged(row) ==
  ~row.is_admin /\ ~row.is_staff /\ ~row.is_active /\ ~row.is_Superadmin

AllFour(row) ==
  row.is_admin /\ row.is_staff /\ row.is_active /\ row.is_Superadmin

UniqueRows(rows) ==
  \A i, j \in 1..Len(rows) :
    i # j => rows[i].email # rows[j].email /\ rows[i].username # rows[j].username

\* A row of `rows` holds this email or this username.
Held(rows, email, username) ==
  \E i \in 1..Len(rows) : rows[i].email = email \/ rows[i].username = username

\* `rows` with one more row at the end.
OneMore(rows, before) ==
  Len(rows) = Len(before) + 1 /\ SubSeq(rows, 1, Len(before)) = before

\* C1: a create_superuser call that returns leaves a committed row whose
\* four status columns is_admin, is_staff, is_active and is_Superadmin are
\* all true.
C1_SuperuserAllFour ==
  (ret.op = "create_superuser" /\ ret.outcome = "ok")
    => IsStored /\ AllFour(Stored)

\* C2 as stated: no two rows share an email or a username, and every create
\* call whose email or username is that of a committed row ends in
\* IntegrityError and adds no row.
C2_AnyCollisionIsIntegrityError ==
  /\ UniqueRows(db)
  /\ (ret.op \in Creates /\ Held(ret.before, ret.email, ret.username))
       => (ret.outcome = IntegrityError /\ db = ret.before)

\* C2 amended: no two rows share an email or a username, and every create
\* call with a non-empty email and a non-empty username whose normalized
\* email or whose username is that of a committed row ends in IntegrityError
\* and adds no row.
C2_Unique ==
  /\ UniqueRows(db)
  /\ (/\ ret.op \in Creates
      /\ ~Falsy(ret.email)
      /\ ~Falsy(ret.username)
      /\ Held(ret.before, normalize_email(ret.email), ret.username))
       => (ret.outcome = IntegrityError /\ db = ret.before /\ ret.writes = 0)

\* Two rows are committed and a call whose email differs from the stored one
\* only before normalisation was refused.
C2_Witness ==
  /\ Len(db) = 2
  /\ ret.outcome = IntegrityError
  /\ \E i \in 1..Len(db) :
       /\ db[i].email = normalize_email(ret.email)
       /\ db[i].email # ret.email
       /\ db[i].username # ret.username

\* C3: a create_user call with an empty or absent email ends in the
\* missing-email ValueError, writes nothing and leaves the table as it was.
C3_MissingEmail ==
  (ret.op = "create_user" /\ Falsy(ret.email))
    => (ret.outcome = EmailError /\ ret.writes = 0 /\ db = ret.before)

C3_Witness ==
  /\ ret.op = "create_user"
  /\ ret.email = <<>>
  /\ ret.outcome = EmailError
  /\ Len(db) >= 1

\* C4 as stated: a create_user call with an empty or absent username ends
\* in the missing-username ValueError and leaves the table as it was.
C4_AlwaysUsernameError ==
  (ret.op = "create_user" /\ Falsy(ret.username))
    => (ret.outcome = UsernameError /\ db = ret.before)

\* C4 amended: a create_user call with an empty or absent username ends in a
\* ValueError, the missing-username one when the email is non-empty and the
\* missing-email one otherwise, and leaves the table as it was.
C4_MissingUsername ==
  (ret.op = "create_user" /\ Falsy(ret.username))
    => /\ ret.outcome = IF Falsy(ret.email) THEN EmailError ELSE UsernameError
       /\ ret.writes = 0
       /\ db = ret.before

C4_Witness ==
  /\ ret.op = "create_user"
  /\ ret.username = <<>>
  /\ ~Falsy(ret.email)
  /\ ret.outcome = UsernameError
  /\ Len(db) >= 1

\* C5: a has_perm query answers the instance's is_admin, whatever the
\* permission, the target and the other three status columns.
C5_HasPerm == answer.op = "has_perm" => answer.value = user.is_admin

\* The other three columns are true, is_admin is not, and the answer is no.
C5_Witness ==
  /\ answer.op = "has_perm"
  /\ ~user.is_admin /\ user.is_staff /\ user.is_active /\ user.is_Superadmin
  /\ answer.value = FALSE

\* C6: after a create call that committed a row, the stored password is not
\* the plaintext and check_password accepts that plaintext and no other;
\* when the password was None, check_password accepts nothing.
C6_Password ==
  (ret.op \in Creates /\ ret.outcome \in { "ok", "pending" })
    => /\ IsStored
       /\ IF ret.password = None
          THEN \A g \in Guesses : ~check_password(g, Stored.password)
          ELSE /\ Stored.password # ret.password
               /\ \A g \in Guesses \cup { ret.password } :
                    check_password(g, Stored.password) <=> g = ret.password

C6_Witness ==
  /\ ret.op = "create_superuser"
  /\ ret.outcome = "ok"
  /\ ret.password = <<"p">>
  /\ IsStored
  /\ check_password(<<"p">>, Stored.password)
  /\ ~check_password(<<"q">>, Stored.password)

\* C7: a create_user call that returns made one write, which added one row
\* with the four status columns false, and has_perm of the returned
\* instance is false.
C7_CreateUser ==
  (ret.op = "create_user" /\ ret.outcome = "ok")
    => /\ ret.writes = 1
       /\ OneMore(db, ret.before)
       /\ IsStored
       /\ Stored = Row(user)
       /\ Unprivileged(Stored)
       /\ \A perm \in Perms, obj \in Objs : ~has_perm(user, perm, obj)

C7_Witness ==
  /\ ret.op = "create_user"
  /\ ret.outcome = "ok"
  /\ Len(db) = 2
  /\ ret.email # db[2].email

\* C8: a has_module_perms query answers true, whatever the app label and
\* the four status columns.
C8_HasModulePerms == answer.op = "has_module_perms" => answer.value = TRUE

C8_Witness ==
  /\ answer.op = "has_module_perms"
  /\ Unprivileged(user)
  /\ answer.value = TRUE

\* C9: between the two writes of create_superuser the new row is committed
\* with the four status columns false; a call that returns made two writes;
\* and after a crash between the writes the table is the one the call found
\* plus that unprivileged row.
C9_TwoWrites ==
  /\ pc = "promote"
       => /\ IsStored
          /\ Unprivileged(Stored)
          /\ OneMore(db, ret.before)
          /\ ret.writes = 1
  /\ (ret.op = "create_superuser" /\ ret.outcome = "ok")
       => (ret.writes = 2 /\ OneMore(db, ret.before))
  /\ ret.outcome = "crashed"
       => (OneMore(db, ret.before) /\ Unprivileged(db[Len(db)]))

\* A reader has read the new row, unprivileged, while the call is between
\* its writes.
C9_Witness ==
  /\ pc = "promote"
  /\ seen.pk = user.pk
  /\ ~seen.is_admin /\ ~seen.is_staff /\ ~seen.is_active

\* C10: a create_superuser call with an empty or absent email or username,
\* or whose normalized email or username is that of a committed row, ends in
\* create_user's error with no write and before any promotion, and the table
\* is left as the call found it.
C10_FailedSuperuser ==
  /\ (/\ ret.op = "create_superuser"
      /\ \/ Falsy(ret.email)
         \/ Falsy(ret.username)
         \/ Held(ret.before, normalize_email(ret.email), ret.username))
       => (ret.outcome \in Errors /\ ret.writes = 0 /\ pc = "idle")
  /\ (ret.op = "create_superuser" /\ ret.outcome \in Errors)
       => db = ret.before

\* A create_superuser call was refused for an email that an unprivileged
\* row holds.
C10_Witness ==
  /\ ret.op = "create_superuser"
  /\ ret.outcome = IntegrityError
  /\ \E i \in 1..Len(db) :
       db[i].email = normalize_email(ret.email) /\ Unprivileged(db[i])

====
